---- MODULE Spec2Model ----
(***************************************************************************)
(* Model of the asynchronous task manager of main.py: the task registry    *)
(* (task_results guarded by task_lock), the submit handler start_task and  *)
(* the background executor long_running_agent_task with its two outbound   *)
(* calls to the agent runtime.                                             *)
(***************************************************************************)
EXTENDS Integers, Sequences, FiniteSets, TLC

(***************************************************************************)
(* Bounds of the model.                                                    *)
(***************************************************************************)
MaxTasks == 2

MaxQueries == 2

(***************************************************************************)
(* Python / JSON values.  A value is a record tagged by its kind k; a     *)
(* string is a sequence of tokens (a token stands for one or more         *)
(* characters), a dict is a record of its keys.                           *)
(***************************************************************************)
None == [k |-> "null"]

Absent == [k |-> "absent"]

Str(s) == [k |-> "str", v |-> s]

Num(n) == [k |-> "num", v |-> n]

List(s) == [k |-> "list", v |-> s]

Dict(d) == [k |-> "dict", v |-> d]

\* uuid.uuid4() rendered by str(): a non-empty string, distinct per draw
Uuid(n) == Str(<<"uuid-", ToString(n)>>)

\* Python truth value of a JSON value (the test of `if x:` and `not x`)
Truthy(x) ==
    CASE x.k = "null" -> FALSE
      [] x.k = "absent" -> FALSE
      [] x.k = "str" -> x.v # <<>>
      [] x.k = "num" -> x.v # 0
      [] x.k = "list" -> x.v # <<>>
      [] x.k = "dict" -> TRUE

\* type(x).__name__, as it appears in the text of an exception
PyType(x) ==
    CASE x.k = "null" -> "NoneType"
      [] x.k = "str" -> "str"
      [] x.k = "num" -> "int"
      [] x.k = "list" -> "list"
      [] x.k = "dict" -> "dict"

(***************************************************************************)
(* Request payloads.  A payload is the dict received by start_task; a key  *)
(* that is missing from the dict holds Absent.                             *)
(***************************************************************************)
Message == Str(<<"hi">>)

Payloads ==
    { [appName |-> Absent, userId |-> Absent, sessionId |-> Absent, newMessage |-> Message],
      [appName |-> Str(<<"myapp">>), userId |-> Str(<<"u1">>), sessionId |-> Str(<<"s1">>),
       newMessage |-> Message] }

\* the forms a submitted userId / sessionId takes: key missing, null, "", given
IdForms == <<Absent, None, Str(<<>>), Str(<<"given">>)>>

SubmitPayloads ==
    { [appName |-> Absent, userId |-> IdForms[x[1]], sessionId |-> IdForms[x[2]],
       newMessage |-> Message] :
        x \in {y \in (1..4) \X (1..4) : y[2] = y[1] \/ y[2] = 5 - y[1]} }

\* payload.get(key, default)
PayloadGet(p, key, default) == IF p[key] = Absent THEN default ELSE p[key]

(***************************************************************************)
(* Outcomes of an outbound requests.post: a response or a raised          *)
(* exception.  The text of a response body is a sequence of one-character *)
(* tokens; json is what response.json() parses it to, or NotJson.         *)
(***************************************************************************)
NotJson == [k |-> "notjson"]

NoResponse == [k |-> "noresponse"]

Response(status, text, json) == [k |-> "response", status |-> status, text |-> text, json |-> json]

Exc(class, msg, response) == [k |-> "exception", class |-> class, msg |-> msg, response |-> response]

NoOutcome == [k |-> "none"]

\* error_msg / log slices: text[:n]
Take(s, n) == IF Len(s) <= n THEN s ELSE SubSeq(s, 1, n)

BodyLimit == 500

ShortText == <<"b", "a", "d">>

LongText == [i \in 1..(BodyLimit + 1) |-> IF i = BodyLimit + 1 THEN "z" ELSE "x"]

ReadTimeout == Exc("Timeout", <<"Read timed out.">>, NoResponse)

ConnectionError == Exc("ConnectionError", <<"Connection refused">>, NoResponse)

\* events of the agent runtime
Part(x) == Dict([text |-> x])

PartNoText == Dict([inlineData |-> Str(<<"img">>)])

Ev(parts) == Dict([content |-> Dict([parts |-> List(parts)])])

EvNoContent == Dict([author |-> Str(<<"agent">>)])

EvNoParts == Dict([content |-> Dict([role |-> Str(<<"model">>)])])

EventsEmpty == List(<<>>)

EventsNoText == List(<<EvNoContent, EvNoParts, Ev(<<PartNoText, Part(Str(<<>>))>>)>>)

EventsText ==
    List(<<Ev(<<Part(Str(<<"old">>))>>),
           Ev(<<PartNoText, Part(Str(<<>>)), Part(Str(<<"hello">>)), Part(Str(<<"later">>))>>),
           EvNoContent>>)

EventsNumText == List(<<Ev(<<Part(Str(<<"hello">>))>>), Ev(<<Part(Num(5))>>)>>)

EventsNotObjects == List(<<Num(7)>>)

InitOutcomes ==
    { Response(200, <<>>, NotJson), Response(404, ShortText, NotJson), ReadTimeout, ConnectionError }

RunOutcomes ==
    { ReadTimeout, ConnectionError,
      Response(422, LongText, NotJson), Response(302, <<>>, EventsEmpty) }
    \cup { Response(200, <<>>, j) :
             j \in {EventsEmpty, EventsNoText, EventsText, EventsNumText, EventsNotObjects} }

(***************************************************************************)
(* Results of Python expressions that may raise.                           *)
(***************************************************************************)
Ok(v) == [ok |-> TRUE, v |-> v]

Raise(e) == [ok |-> FALSE, exc |-> e]

AttributeError(x) ==
    Exc("AttributeError", <<"'", PyType(x), "' object has no attribute 'get'">>, NoResponse)

TypeError(x, what) == Exc("TypeError", <<"'", PyType(x), "' ", what>>, NoResponse)

JSONDecodeError ==
    Exc("JSONDecodeError", <<"Expecting value: line 1 column 1 (char 0)">>, NoResponse)

HTTPError(r) == Exc("HTTPError", <<ToString(r.status), " Error">>, r)

\* x.get(key) for a value x taken from the response body
Get(x, key) ==
    IF x.k = "dict"
    THEN Ok(IF key \in DOMAIN x.v THEN x.v[key] ELSE None)
    ELSE Raise(AttributeError(x))

\* response.raise_for_status(): requests raises HTTPError for 400..599 only
RaisesForStatus(status) == 400 <= status /\ status < 600

\* response.json()
Json(r) == IF r.json = NotJson THEN Raise(JSONDecodeError) ELSE Ok(r.json)

\* len(events) inside the [RECEIVED ...] log line
LenCheck(events) ==
    IF events.k \in {"list", "str", "dict"}
    THEN Ok(events)
    ELSE Raise(TypeError(events, "has no len()"))

\* what `for x in c` iterates over
Elements(c) ==
    CASE c.k = "list" -> Ok(c.v)
      [] c.k = "str" -> Ok([i \in 1..Len(c.v) |-> Str(<<c.v[i]>>)])
      [] c.k = "dict" -> Ok(<<Str(<<"key">>)>>)
      [] OTHER -> Raise(TypeError(c, "object is not iterable"))

\* the inner loop over content['parts']: the first part with a truthy text
RECURSIVE ScanPartsFrom(_, _)
ScanPartsFrom(parts, i) ==
    IF i > Len(parts) THEN Ok(None)
    ELSE LET t == Get(parts[i], "text")
         IN IF ~t.ok THEN t
            ELSE IF Truthy(t.v) THEN Ok(t.v)
            ELSE ScanPartsFrom(parts, i + 1)

ScanParts(parts) == ScanPartsFrom(parts, 1)

\* the body of the outer loop for one event: the message it yields, or None
ScanEvent(event) ==
    LET c == Get(event, "content")
    IN IF ~c.ok THEN c
       ELSE IF ~Truthy(c.v) THEN Ok(None)
       ELSE LET p == Get(c.v, "parts")
            IN IF ~p.ok THEN p
               ELSE IF ~Truthy(p.v) THEN Ok(None)
               ELSE LET es == Elements(p.v)
                    IN IF ~es.ok THEN es ELSE ScanParts(es.v)

\* for event in reversed(events): events[i], events[i-1], ..., events[1]
RECURSIVE ScanEventsFrom(_, _)
ScanEventsFrom(events, i) ==
    IF i = 0 THEN Ok([message |-> None, response |-> None])
    ELSE LET m == ScanEvent(events[i])
         IN IF ~m.ok THEN m
            ELSE IF Truthy(m.v) THEN Ok([message |-> m.v, response |-> events[i]])
            ELSE ScanEventsFrom(events, i - 1)

\* lines 80-95: agent_message and agent_response extracted from events
ExtractReply(events) ==
    LET es == Elements(events)
    IN IF ~es.ok THEN es ELSE ScanEventsFrom(es.v, Len(es.v))

\* agent_message[:200] in the [AGENT MESSAGE] log line
SliceForLog(m) ==
    IF m.k \in {"str", "list"}
    THEN Ok(m)
    ELSE Raise(TypeError(m, "object is not subscriptable"))

\* except clauses that store the status of a timeout without a result string
CatchTimeoutNoResult(e) ==
    IF e.class = "HTTPError"
    THEN [status |-> "FAILURE",
          result |-> Str(<<"HTTP ", ToString(e.response.status), ": ">>
                           \o Take(e.response.text, BodyLimit))]
    ELSE IF e.class = "Timeout"
    THEN [status |-> "TIMEOUT", result |-> None]
    ELSE [status |-> "FAILURE", result |-> Str(e.msg)]

\* the except clauses with Timeout falling through to the catch-all clause
CatchTimeoutAsFailure(e) ==
    IF e.class = "HTTPError"
    THEN [status |-> "FAILURE",
          result |-> Str(<<"HTTP ", ToString(e.response.status), ": ">>
                           \o Take(e.response.text, BodyLimit))]
    ELSE [status |-> "FAILURE", result |-> Str(e.msg)]

\* lines 112-124: the record the matching except clause stores for exception e
Catch(e) ==
    IF e.class = "HTTPError"
    THEN [status |-> "FAILURE",
          result |-> Str(<<"HTTP ", ToString(e.response.status), ": ">>
                           \o Take(e.response.text, BodyLimit))]
    ELSE IF e.class = "Timeout"
    THEN [status |-> "TIMEOUT", result |-> Str(<<"Agent run exceeded timeout">>)]
    ELSE [status |-> "FAILURE", result |-> Str(e.msg)]

VARIABLES
    task_results,   \* the registry: task_id -> [status, result]
    nextUuid,       \* number of uuid4() draws made so far
    submitted,      \* task_id -> the payload as received by start_task
    payload,        \* task_id -> the payload dict handed to the executor
    reply,          \* task_id -> the response start_task returned
    pc,             \* task_id -> position of the executor of that task
    locals,         \* task_id -> app_name, user_id, session_id, new_message, agent_message
    sent,           \* task_id -> the outbound requests issued, in order
    initOutcome,    \* task_id -> outcome of the session-init call
    runOutcome,     \* task_id -> outcome of the run call
    writes,         \* task_id -> statuses the executor has stored, in order
    returned        \* the responses get_task_status has returned, in order

vars == <<task_results, nextUuid, submitted, payload, reply, pc, locals, sent,
          initOutcome, runOutcome, writes, returned>>

Tasks == DOMAIN task_results

ADK_AGENT_URL == <<"http://localhost:8085">>

SessionTimeout == 10

RunTimeout == 300

NoLocals ==
    [app_name |-> None, user_id |-> None, session_id |-> None, new_message |-> None,
     agent_message |-> None]

Init ==
    /\ task_results = <<>>
    /\ nextUuid = 0
    /\ submitted = <<>>
    /\ payload = <<>>
    /\ reply = <<>>
    /\ pc = <<>>
    /\ locals = <<>>
    /\ sent = <<>>
    /\ initOutcome = <<>>
    /\ runOutcome = <<>>
    /\ writes = <<>>
    /\ returned = <<>>

\* normalization that tests only for a missing key
NormalizeMissingOnly(p, sid, uid) ==
    [p EXCEPT !.sessionId = IF p.sessionId = Absent THEN sid ELSE @,
              !.userId = IF p.userId = Absent THEN uid ELSE @]

\* lines 136-141: sid and uid are the uuids drawn when the key is missing or falsy
Normalize(p, sid, uid) ==
    [p EXCEPT !.sessionId = IF p.sessionId = Absent \/ ~Truthy(p.sessionId) THEN sid ELSE @,
              !.userId = IF p.userId = Absent \/ ~Truthy(p.userId) THEN uid ELSE @]

\* number of uuid4() draws start_task makes for payload p
Draws(p) == 1 + (IF Truthy(p.sessionId) THEN 0 ELSE 1) + (IF Truthy(p.userId) THEN 0 ELSE 1)

\* the record of a task that has not finished
PendingRecord == [status |-> "PENDING", result |-> None]

\* a submit handler that schedules the executor without creating the record
CreateRecordSkipped(registry, task_id) == registry

\* lines 143-144: task_results[task_id] = {"status": "PENDING", "result": None}
CreateRecord(registry, task_id) == (task_id :> PendingRecord) @@ registry

\* lines 127-147: the submit handler
start_task(p) ==
    /\ Cardinality(Tasks) < MaxTasks
    /\ LET task_id == Uuid(nextUuid + 1)
           sid == Uuid(nextUuid + 2)
           uid == Uuid(IF Truthy(p.sessionId) THEN nextUuid + 2 ELSE nextUuid + 3)
           np == Normalize(p, sid, uid)
       IN /\ task_results' = CreateRecord(task_results, task_id)
          /\ submitted' = (task_id :> p) @@ submitted
          /\ payload' = (task_id :> np) @@ payload
          /\ pc' = (task_id :> "scheduled") @@ pc
          /\ locals' = (task_id :> NoLocals) @@ locals
          /\ sent' = (task_id :> <<>>) @@ sent
          /\ initOutcome' = (task_id :> NoOutcome) @@ initOutcome
          /\ runOutcome' = (task_id :> NoOutcome) @@ runOutcome
          /\ writes' = (task_id :> <<>>) @@ writes
          /\ reply' = (task_id :> [task_id |-> task_id, session_id |-> np.sessionId,
                                   user_id |-> np.userId]) @@ reply
          /\ nextUuid' = nextUuid + Draws(p)
    /\ UNCHANGED returned

\* a write that rebuilds the registry and resets the other records
SetResultResetOthers(t, rec) ==
    /\ task_results' = [u \in DOMAIN task_results |-> IF u = t THEN rec ELSE PendingRecord]
    /\ writes' = [writes EXCEPT ![t] = Append(@, rec.status)]

\* task_results[task_id] = rec under task_lock, by the executor of t
SetResult(t, rec) ==
    /\ task_results' = [task_results EXCEPT ![t] = rec]
    /\ writes' = [writes EXCEPT ![t] = Append(@, rec.status)]

\* the except clauses without the final `except Exception`
HandleExceptionNoCatchAll(t, e) ==
    /\ IF e.class \in {"HTTPError", "Timeout"}
       THEN SetResult(t, Catch(e))
       ELSE UNCHANGED <<task_results, writes>>
    /\ pc' = [pc EXCEPT ![t] = "done"]

\* except clauses that run the executor again after a failed request
HandleExceptionRetry(t, e) ==
    IF e.class \in {"Timeout", "ConnectionError"}
    THEN /\ pc' = [pc EXCEPT ![t] = "scheduled"]
         /\ UNCHANGED <<task_results, writes>>
    ELSE /\ SetResult(t, Catch(e))
         /\ pc' = [pc EXCEPT ![t] = "done"]

\* lines 112-124: the except clauses; the executor returns after the write
HandleException(t, e) ==
    /\ SetResult(t, Catch(e))
    /\ pc' = [pc EXCEPT ![t] = "done"]

\* lines 33-44: the session-init request
SessionRequest(l) ==
    [url |-> ADK_AGENT_URL \o <<"/apps/">> \o l.app_name.v \o <<"/users/">> \o l.user_id.v
                \o <<"/sessions/">> \o l.session_id.v,
     json |-> Dict([state |-> Dict([none |-> None])]),
     timeout |-> SessionTimeout]

\* a run request with user_id and session_id exchanged
RunRequestSwappedIds(l) ==
    [url |-> ADK_AGENT_URL \o <<"/run">>,
     json |-> Dict([app_name |-> l.app_name, user_id |-> l.session_id,
                    session_id |-> l.user_id, new_message |-> l.new_message]),
     timeout |-> RunTimeout]

\* lines 52-70: the run request
RunRequest(l) ==
    [url |-> ADK_AGENT_URL \o <<"/run">>,
     json |-> Dict([app_name |-> l.app_name, user_id |-> l.user_id,
                    session_id |-> l.session_id, new_message |-> l.new_message]),
     timeout |-> RunTimeout]

\* an executor that issues the session-init and the run request together
TaskStartBothRequests(t) ==
    /\ pc[t] = "scheduled"
    /\ LET l == [app_name |-> PayloadGet(payload[t], "appName", Str(<<"agent">>)),
                 user_id |-> PayloadGet(payload[t], "userId", None),
                 session_id |-> PayloadGet(payload[t], "sessionId", None),
                 new_message |-> PayloadGet(payload[t], "newMessage", None),
                 agent_message |-> None]
       IN /\ locals' = [locals EXCEPT ![t] = l]
          /\ sent' = [sent EXCEPT ![t] = @ \o <<SessionRequest(l), RunRequest(l)>>]
    /\ pc' = [pc EXCEPT ![t] = "session_init"]
    /\ UNCHANGED <<task_results, nextUuid, submitted, payload, reply, initOutcome,
                   runOutcome, writes, returned>>

\* lines 24-44: the scheduler starts the executor, which reads the payload and
\* issues the session-init request
TaskStart(t) ==
    /\ pc[t] = "scheduled"
    /\ LET l == [app_name |-> PayloadGet(payload[t], "appName", Str(<<"agent">>)),
                 user_id |-> PayloadGet(payload[t], "userId", None),
                 session_id |-> PayloadGet(payload[t], "sessionId", None),
                 new_message |-> PayloadGet(payload[t], "newMessage", None),
                 agent_message |-> None]
       IN /\ locals' = [locals EXCEPT ![t] = l]
          /\ sent' = [sent EXCEPT ![t] = Append(@, SessionRequest(l))]
    /\ pc' = [pc EXCEPT ![t] = "session_init"]
    /\ UNCHANGED <<task_results, nextUuid, submitted, payload, reply, initOutcome,
                   runOutcome, writes, returned>>

\* lines 40-70: the session-init call returns o; a response of any status is
\* logged and the run request is issued, an exception goes to the except clauses
SessionInitReturn(t, o) ==
    /\ pc[t] = "session_init"
    /\ initOutcome' = [initOutcome EXCEPT ![t] = o]
    /\ IF o.k = "response"
       THEN /\ sent' = [sent EXCEPT ![t] = Append(@, RunRequest(locals[t]))]
            /\ pc' = [pc EXCEPT ![t] = "run"]
            /\ UNCHANGED <<task_results, writes>>
       ELSE /\ HandleException(t, o)
            /\ UNCHANGED sent
    /\ UNCHANGED <<nextUuid, submitted, payload, reply, locals, runOutcome, returned>>

\* lines 72-95: what the executor computes from a run response, or the exception
\* raised on the way
Interpret(r) ==
    IF RaisesForStatus(r.status) THEN Raise(HTTPError(r))
    ELSE LET j == Json(r)
         IN IF ~j.ok THEN j
            ELSE LET n == LenCheck(j.v)
                 IN IF ~n.ok THEN n
                    ELSE LET x == ExtractReply(j.v)
                         IN IF ~x.ok THEN x
                            ELSE Ok([message |-> x.v.message, response |-> x.v.response,
                                     all_events |-> j.v])

\* the SUCCESS record with all_events in the order the scan visits them
Reversed(j) == IF j.k = "list" THEN List([i \in 1..Len(j.v) |-> j.v[Len(j.v) + 1 - i]]) ELSE j

SuccessRecordReversedEvents(x, l) ==
    [status |-> "SUCCESS",
     result |-> Dict([message |-> x.message, response |-> x.response,
                      all_events |-> Reversed(x.all_events),
                      session_id |-> l.session_id, user_id |-> l.user_id])]

\* lines 98-107: the SUCCESS record
SuccessRecord(x, l) ==
    [status |-> "SUCCESS",
     result |-> Dict([message |-> x.message, response |-> x.response,
                      all_events |-> x.all_events,
                      session_id |-> l.session_id, user_id |-> l.user_id])]

\* lines 66-107: the run call returns o
RunReturn(t, o) ==
    /\ pc[t] = "run"
    /\ runOutcome' = [runOutcome EXCEPT ![t] = o]
    /\ IF o.k = "response"
       THEN LET x == Interpret(o)
            IN IF x.ok
               THEN /\ SetResult(t, SuccessRecord(x.v, locals[t]))
                    /\ locals' = [locals EXCEPT ![t].agent_message = x.v.message]
                    /\ pc' = [pc EXCEPT ![t] = "completed"]
               ELSE /\ HandleException(t, x.exc)
                    /\ UNCHANGED locals
       ELSE /\ HandleException(t, o)
            /\ UNCHANGED locals
    /\ UNCHANGED <<nextUuid, submitted, payload, reply, sent, initOutcome, returned>>

\* lines 108-110: the log lines after the SUCCESS record is stored
LogCompletion(t) ==
    /\ pc[t] = "completed"
    /\ LET m == locals[t].agent_message
       IN IF Truthy(m) /\ ~SliceForLog(m).ok
          THEN HandleException(t, SliceForLog(m).exc)
          ELSE /\ pc' = [pc EXCEPT ![t] = "done"]
               /\ UNCHANGED <<task_results, writes>>
    /\ UNCHANGED <<nextUuid, submitted, payload, reply, locals, sent, initOutcome,
                   runOutcome, returned>>

\* the record synthesized for an unknown task_id
NotFoundRecord == [status |-> "NOT_FOUND", result |-> None]

\* a lookup that answers PENDING for an unknown task_id
LookupMissingAsPending(registry, task_id) ==
    IF task_id \in DOMAIN registry THEN registry[task_id] ELSE PendingRecord

\* line 157: task_results.get(task_id, {"status": "NOT_FOUND", "result": None})
Lookup(registry, task_id) ==
    IF task_id \in DOMAIN registry THEN registry[task_id] ELSE NotFoundRecord

\* lines 150-158: the query handler, under task_lock
get_task_status(task_id) ==
    /\ Len(returned) < MaxQueries
    /\ returned' = Append(returned, [task_id |-> task_id, result |-> Lookup(task_results, task_id)])
    /\ UNCHANGED <<task_results, nextUuid, submitted, payload, reply, pc, locals, sent,
                   initOutcome, runOutcome, writes>>

Next ==
    \/ \E p \in Payloads : start_task(p)
    \/ \E t \in Tasks : TaskStart(t)
    \/ \E t \in Tasks, o \in InitOutcomes : SessionInitReturn(t, o)
    \/ \E t \in Tasks, o \in RunOutcomes : RunReturn(t, o)
    \/ \E t \in Tasks : LogCompletion(t)

Spec == Init /\ [][Next]_vars

(***************************************************************************)
(* Submissions of every form of userId / sessionId, against a runtime that *)
(* answers both calls with 200.                                            *)
(***************************************************************************)
SubmitNext ==
    \/ \E p \in SubmitPayloads : start_task(p)
    \/ \E t \in Tasks : TaskStart(t)
    \/ \E t \in Tasks : SessionInitReturn(t, Response(200, <<>>, NotJson))
    \/ \E t \in Tasks : RunReturn(t, Response(200, <<>>, EventsEmpty))
    \/ \E t \in Tasks : LogCompletion(t)

SubmitSpec == Init /\ [][SubmitNext]_vars

(***************************************************************************)
(* Fair executions: one payload, every class of outcome of the two calls.  *)
(***************************************************************************)
LivePayload ==
    [appName |-> Absent, userId |-> Absent, sessionId |-> Absent, newMessage |-> Message]

LiveRunOutcomes ==
    { ReadTimeout, ConnectionError, Response(422, LongText, NotJson),
      Response(200, <<>>, EventsText), Response(200, <<>>, EventsNumText),
      Response(200, <<>>, EventsNotObjects) }

LiveExecutor(t) ==
    \/ TaskStart(t)
    \/ \E o \in InitOutcomes : SessionInitReturn(t, o)
    \/ \E o \in LiveRunOutcomes : RunReturn(t, o)
    \/ LogCompletion(t)

LiveNext ==
    \/ start_task(LivePayload)
    \/ \E t \in Tasks : TaskStart(t)
    \/ \E t \in Tasks, o \in InitOutcomes : SessionInitReturn(t, o)
    \/ \E t \in Tasks, o \in LiveRunOutcomes : RunReturn(t, o)
    \/ \E t \in Tasks : LogCompletion(t)

\* the task ids of at most MaxTasks submissions of LivePayload
LiveTaskIds == {Uuid(1 + Draws(LivePayload) * i) : i \in 0..(MaxTasks - 1)}

\* the background scheduler runs every scheduled executor, and both outbound
\* calls carry a timeout, so every enabled step of an executor is eventually taken
LiveSpec ==
    /\ Init
    /\ [][LiveNext]_vars
    /\ \A t \in LiveTaskIds : WF_vars(t \in Tasks /\ LiveExecutor(t))

(***************************************************************************)
(* Clients polling while tasks run: one payload, the query handler, and a  *)
(* runtime whose run call times out, fails, or returns events.             *)
(***************************************************************************)
QueryInitOutcomes == { Response(200, <<>>, NotJson) }

QueryRunOutcomes ==
    { ReadTimeout, Response(422, ShortText, NotJson), Response(200, <<>>, EventsNumText) }

\* a task_id that start_task never generates
UnknownTaskId == Str(<<"no-such-task">>)

QueryIds == LiveTaskIds \cup {UnknownTaskId}

QueryNext ==
    \/ start_task(LivePayload)
    \/ \E t \in Tasks : TaskStart(t)
    \/ \E t \in Tasks, o \in QueryInitOutcomes : SessionInitReturn(t, o)
    \/ \E t \in Tasks, o \in QueryRunOutcomes : RunReturn(t, o)
    \/ \E t \in Tasks : LogCompletion(t)
    \/ \E id \in QueryIds : get_task_status(id)

QuerySpec == Init /\ [][QueryNext]_vars

(***************************************************************************)
(* Properties.                                                             *)
(***************************************************************************)
Terminal == {"SUCCESS", "FAILURE", "TIMEOUT"}

Is2xx(status) == 200 <= status /\ status < 300

RunTimedOut(t) == runOutcome[t].k = "exception" /\ runOutcome[t].class = "Timeout"

InitFailed(t) ==
    \/ initOutcome[t].k = "exception"
    \/ initOutcome[t].k = "response" /\ ~Is2xx(initOutcome[t].status)

\* C1: under fair scheduling of the executor, every submitted task eventually
\* has a terminal stored status (SUCCESS, FAILURE or TIMEOUT), whatever the
\* outcomes of the session-init call and of the run call.
C1_EventuallyTerminal ==
    /\ [](Tasks \subseteq LiveTaskIds)
    /\ \A t \in LiveTaskIds :
         (t \in Tasks) ~> (t \in Tasks /\ task_results[t].status \in Terminal)

C1_Witness ==
    \E t \in Tasks :
        /\ pc[t] = "done"
        /\ initOutcome[t] = ConnectionError
        /\ task_results[t].status \in Terminal

\* C2: each execution of the executor writes the registry exactly once: never
\* twice at any point, and exactly once when it has finished.
C2_ExactlyOneWrite ==
    \A t \in Tasks :
        /\ Len(writes[t]) <= 1
        /\ pc[t] = "done" => Len(writes[t]) = 1

\* C3: once the stored status of a task is terminal, its record never changes.
C3_TerminalAbsorbing ==
    [][\A t \in Tasks :
         task_results[t].status \in Terminal => task_results'[t] = task_results[t]]_vars

\* C4: whenever the session-init call fails (non-2xx response or exception) the
\* run request is still issued, and tasks with the same run outcome end in the
\* same status.
C4_SessionInitAdvisory ==
    /\ \A t \in Tasks : InitFailed(t) => Len(sent[t]) = 2
    /\ \A t, u \in Tasks :
         (pc[t] = "done" /\ pc[u] = "done" /\ runOutcome[t] = runOutcome[u])
            => task_results[t].status = task_results[u].status

\* C5: when the run request times out the stored record is TIMEOUT with the
\* fixed string, and TIMEOUT is the only record the executor ever wrote.
C5_RunTimeout ==
    \A t \in Tasks :
        RunTimedOut(t) =>
            /\ task_results[t] = [status |-> "TIMEOUT",
                                  result |-> Str(<<"Agent run exceeded timeout">>)]
            /\ writes[t] = <<"TIMEOUT">>

C5_Witness == \E t \in Tasks : RunTimedOut(t) /\ pc[t] = "done"

\* the string r holds the status code and ends with the first BodyLimit
\* characters of the body text
CodeThenBody(r, status, text) ==
    LET body == Take(text, BodyLimit)
    IN /\ r.k = "str"
       /\ Len(r.v) > Len(body)
       /\ SubSeq(r.v, Len(r.v) - Len(body) + 1, Len(r.v)) = body
       /\ \E i \in 1..(Len(r.v) - Len(body)) : r.v[i] = ToString(status)

\* C6: for every non-2xx status of the run response the stored status is
\* FAILURE and the result string holds the status code followed by at most the
\* first 500 characters of the body.
C6_Non2xxIsFailure ==
    \A t \in Tasks :
        (pc[t] = "done" /\ runOutcome[t].k = "response" /\ ~Is2xx(runOutcome[t].status))
            => /\ task_results[t].status = "FAILURE"
               /\ CodeThenBody(task_results[t].result, runOutcome[t].status, runOutcome[t].text)

\* C7: whenever the run response has a 2xx status the finished task's stored
\* status is SUCCESS, for every body.
C7_2xxIsSuccess ==
    \A t \in Tasks :
        (pc[t] = "done" /\ runOutcome[t].k = "response" /\ Is2xx(runOutcome[t].status))
            => task_results[t].status = "SUCCESS"

\* an event list as the runtime documents it: a list of objects, each with an
\* optional content object holding an optional list of part objects
WellFormedEvent(e) ==
    /\ e.k = "dict"
    /\ "content" \in DOMAIN e.v =>
         /\ e.v.content.k = "dict"
         /\ "parts" \in DOMAIN e.v.content.v =>
              /\ e.v.content.v.parts.k = "list"
              /\ \A i \in 1..Len(e.v.content.v.parts.v) : e.v.content.v.parts.v[i].k = "dict"

WellFormedEvents(j) == j.k = "list" /\ \A i \in 1..Len(j.v) : WellFormedEvent(j.v[i])

PartsOf(e) ==
    IF "content" \in DOMAIN e.v /\ "parts" \in DOMAIN e.v.content.v
    THEN e.v.content.v.parts.v
    ELSE <<>>

TextOf(part) == IF "text" \in DOMAIN part.v THEN part.v.text ELSE None

\* a non-empty text is a text value that Python takes as true
HasText(e) == \E i \in 1..Len(PartsOf(e)) : Truthy(TextOf(PartsOf(e)[i]))

\* the first non-empty text of the last event that has one
ExpectedMessage(events) ==
    LET last == CHOOSE i \in 1..Len(events) :
                    HasText(events[i]) /\ \A j \in (i + 1)..Len(events) : ~HasText(events[j])
        parts == PartsOf(events[last])
        first == CHOOSE i \in 1..Len(parts) :
                    Truthy(TextOf(parts[i])) /\ \A j \in 1..(i - 1) : ~Truthy(TextOf(parts[j]))
    IN TextOf(parts[first])

RunSucceeded(t) == runOutcome[t].k = "response" /\ Is2xx(runOutcome[t].status)

\* C8: after a successful run whose event list has a part with non-empty text,
\* the stored result's message is the first non-empty text of the most recent
\* event that has one.
C8_EventScan ==
    \A t \in Tasks :
        (/\ pc[t] = "done"
         /\ RunSucceeded(t)
         /\ WellFormedEvents(runOutcome[t].json)
         /\ \E i \in 1..Len(runOutcome[t].json.v) : HasText(runOutcome[t].json.v[i]))
            => /\ task_results[t].status = "SUCCESS"
               /\ task_results[t].result.v.message = ExpectedMessage(runOutcome[t].json.v)

\* C9: after a successful run whose event list has no part with non-empty text
\* the stored status is SUCCESS, the message is null and all_events is the
\* returned list, unchanged.
C9_NoTextIsSuccess ==
    \A t \in Tasks :
        (/\ RunSucceeded(t)
         /\ WellFormedEvents(runOutcome[t].json)
         /\ \A i \in 1..Len(runOutcome[t].json.v) : ~HasText(runOutcome[t].json.v[i]))
            => /\ task_results[t].status = "SUCCESS"
               /\ task_results[t].result.k = "dict"
               /\ task_results[t].result.v.message = None
               /\ task_results[t].result.v.all_events = runOutcome[t].json

C9_Witness ==
    \E t \in Tasks : pc[t] = "done" /\ RunSucceeded(t) /\ runOutcome[t].json = EventsNoText

\* the uuids drawn so far
Generated == {Uuid(n) : n \in 1..nextUuid}

Kept(given, used) ==
    /\ Truthy(used)
    /\ Truthy(given) => used = given
    /\ ~Truthy(given) => used \in Generated

\* C10: from the moment the executor is scheduled the payload it is given has
\* non-empty userId and sessionId, a supplied non-empty value being kept and a
\* missing or empty one replaced by a generated value; the values the executor
\* reads are these.
C10_Normalized ==
    \A t \in Tasks :
        /\ Kept(submitted[t].userId, payload[t].userId)
        /\ Kept(submitted[t].sessionId, payload[t].sessionId)
        /\ pc[t] # "scheduled" =>
             /\ locals[t].user_id = payload[t].userId
             /\ locals[t].session_id = payload[t].sessionId

C10_Witness ==
    \E t \in Tasks :
        /\ submitted[t].userId = None
        /\ submitted[t].sessionId = Str(<<>>)
        /\ pc[t] = "done"

\* the response of the query handler that returns in this step
Queried == Len(returned') = Len(returned) + 1

Answer == returned'[Len(returned')]

\* C11: creating a record never touches an existing record (a stored record
\* changes only by a write of its executor and is never deleted); every
\* scheduled task has its record, which is PENDING until its executor writes;
\* the submit response names that task; and a query of a created task returns
\* the PENDING record until the executor's write and never NOT_FOUND.
C11_PendingOnSubmit ==
    /\ [](\A t \in DOMAIN pc :
            /\ t \in Tasks
            /\ reply[t].task_id = t
            /\ writes[t] = <<>> => task_results[t] = PendingRecord)
    /\ [][\A t \in Tasks :
            /\ t \in DOMAIN task_results'
            /\ task_results'[t] # task_results[t] => Len(writes'[t]) = Len(writes[t]) + 1]_vars
    /\ [][(Queried /\ Answer.task_id \in Tasks) =>
            /\ Answer.result.status # "NOT_FOUND"
            /\ writes[Answer.task_id] = <<>> => Answer.result = PendingRecord]_vars

C11_Witness ==
    /\ Cardinality(Tasks) = 2
    /\ \E i \in 1..Len(returned) :
         /\ returned[i].task_id \in Tasks
         /\ returned[i].task_id # Uuid(1)
         /\ returned[i].result = PendingRecord

\* C12: a query of a task_id that was never created returns the NOT_FOUND
\* record, a query leaves the registry as it was, and no stored record has
\* status NOT_FOUND.
C12_NotFound ==
    /\ [](\A t \in Tasks : task_results[t].status # "NOT_FOUND")
    /\ [][Queried =>
            /\ task_results' = task_results
            /\ Answer.task_id \notin Tasks => Answer.result = NotFoundRecord]_vars

C12_Witness ==
    /\ Tasks # {}
    /\ \E i \in 1..Len(returned) :
         returned[i] = [task_id |-> UnknownTaskId, result |-> NotFoundRecord]

\* C13: a query leaves the registry unchanged, and two queries of the same
\* task, the first of which saw it completed (terminal status), return the
\* identical record.
C13_QueriesAgree ==
    /\ [][Queried => task_results' = task_results]_vars
    /\ [](\A i, j \in 1..Len(returned) :
            (/\ i < j
             /\ returned[i].task_id = returned[j].task_id
             /\ returned[i].result.status \in Terminal)
               => returned[j].result = returned[i].result)

\* status and result of a record agree
Consistent(rec) ==
    /\ rec.result = None <=> rec.status \in {"PENDING", "NOT_FOUND"}
    /\ rec.result.k = "dict" <=> rec.status = "SUCCESS"
    /\ rec.result.k = "str" <=> rec.status \in {"FAILURE", "TIMEOUT"}
    /\ rec.status \in {"PENDING", "NOT_FOUND", "SUCCESS", "FAILURE", "TIMEOUT"}

\* C14: in every stored record and in every record a query returned, result is
\* null exactly for PENDING / NOT_FOUND, a structured object exactly for
\* SUCCESS and a string exactly for FAILURE / TIMEOUT; a query returns the
\* record that is stored at that moment.
C14_NoTornRecords ==
    /\ [](/\ \A t \in Tasks : Consistent(task_results[t])
          /\ \A i \in 1..Len(returned) : Consistent(returned[i].result))
    /\ [][Queried => Answer.result \in {Lookup(task_results, Answer.task_id),
                                         Lookup(task_results', Answer.task_id)}]_vars

C14_Witness ==
    /\ \E i \in 1..Len(returned) : returned[i].result.status = "SUCCESS"
    /\ \E i \in 1..Len(returned) : returned[i].result.status = "PENDING"
    /\ \E t \in Tasks : task_results[t].status = "TIMEOUT"

IsRunRequest(r) == r.url = ADK_AGENT_URL \o <<"/run">>

RunRequests(t) == {i \in 1..Len(sent[t]) : IsRunRequest(sent[t][i])}

SessionRequests(t) == {i \in 1..Len(sent[t]) : ~IsRunRequest(sent[t][i])}

InFlight(t) == pc[t] \in {"session_init", "run"}

C16_NoRetries ==
    /\ [](\A t \in Tasks :
            /\ Cardinality(SessionRequests(t)) <= 1
            /\ Cardinality(RunRequests(t)) <= 1)
    /\ [][\A t \in Tasks :
            /\ pc[t] # "scheduled" => pc'[t] # "scheduled"
            /\ pc[t] = "done" => pc'[t] = "done"]_vars

C16_Witness ==
    \E t, u \in Tasks :
        /\ pc[t] = "done" /\ initOutcome[t] = ReadTimeout
        /\ pc[u] = "done" /\ runOutcome[u] = ConnectionError

\* the envelope of the runtime's protocol around message m
Envelope(m) == Dict([role |-> Str(<<"user">>), parts |-> List(<<Dict([text |-> m])>>)])

\* C17: the new_message field of every run request is the envelope
\* {role: "user", parts: [{text: m}]} around the submitted newMessage m.
C17_MessageEnvelope ==
    \A t \in Tasks :
        \A i \in RunRequests(t) :
            sent[t][i].json.v.new_message = Envelope(submitted[t].newMessage)

\* C18: the response of every submission has exactly the fields task_id,
\* session_id, user_id and status, with status PENDING.
C18_SubmitResponse ==
    \A t \in Tasks :
        /\ DOMAIN reply[t] = {"task_id", "session_id", "user_id", "status"}
        /\ reply[t].status = "PENDING"

\* C19: a registry write of the executor of task t leaves the record of every
\* other task unchanged, and the stored record of a task always carries the
\* latest status its executor wrote.
C19_TaskIndependence ==
    /\ [][\A t \in Tasks :
            writes'[t] # writes[t] =>
                \A u \in Tasks \ {t} : task_results'[u] = task_results[u]]_vars
    /\ [](\A t \in Tasks :
            writes[t] # <<>> => task_results[t].status = writes[t][Len(writes[t])])

\* the task submitted second is terminal while the first is still pending
C19_Witness ==
    /\ Uuid(1) \in Tasks
    /\ task_results[Uuid(1)] = PendingRecord
    /\ pc[Uuid(1)] = "run"
    /\ \E u \in Tasks : task_results[u].status \in Terminal /\ pc[u] = "done"

\* C20: the ids of the submit response are the ids of the session-init URL, of
\* the run request body and of the SUCCESS result.
C20_IdentityConsistency ==
    \A t \in Tasks :
        /\ \A i \in SessionRequests(t) :
             sent[t][i].url = ADK_AGENT_URL \o <<"/apps/">> \o locals[t].app_name.v
                                \o <<"/users/">> \o reply[t].user_id.v
                                \o <<"/sessions/">> \o reply[t].session_id.v
        /\ \A i \in RunRequests(t) :
             /\ sent[t][i].json.v.user_id = reply[t].user_id
             /\ sent[t][i].json.v.session_id = reply[t].session_id
        /\ task_results[t].status = "SUCCESS" =>
             /\ task_results[t].result.v.user_id = reply[t].user_id
             /\ task_results[t].result.v.session_id = reply[t].session_id

C20_Witness ==
    \E t \in Tasks :
        /\ task_results[t].status = "SUCCESS"
        /\ submitted[t].userId = Absent
        /\ submitted[t].sessionId = Str(<<"given">>)

====
